---- MODULE Spec2Model ----
(***************************************************************************)
(* Streaming chat session: the browser client of frontend/app/page.tsx    *)
(* (handleSubmit: submission guard, fetch, chunk-wise read loop, SSE line  *)
(* parser, message reducer, catch/finally) and the relay of                *)
(* app/api/chat/route.ts (POST: validation, upstream open, forwarding loop *)
(* with its 1000-event ceiling, lifecycle frames, close); and the upload   *)
(* route app/api/ingest/route.ts (POST: validation, processing, ingestion).*)
(***************************************************************************)
EXTENDS Integers, Sequences, FiniteSets, TLC

\* ------------------------------------------------------------------ bounds
\* accepted submissions (requests issued) in one behaviour
MaxRequests == 2
\* events the upstream yields in one behaviour of the session model
MaxEvents == 2
\* events the upstream yields in one behaviour of the single-request model
MaxStreamEvents == 3
\* events the upstream may yield beyond the relay's ceiling (relay-only model)
MaxOver == 2
\* frames sent before the consumer cancels the stream (relay-only model)
MaxCancelAt == 2
\* events the upstream yields in a short run of the relay-only model
MaxRelayEvents == 3
\* files (and file names) of an upload to the ingest route, besides the
\* uploads of MAX_FILES and MAX_FILES + 1 files
MaxIngestFiles == 2
\* events the upstream yields in one behaviour of the partial-message model
MaxPartialEvents == 2

\* ------------------------------------------------------------ JS values
\* Strings are run-length encoded: a sequence of runs [c, n], n >= 1, so that
\* a 10,001-character message is one run.  Lit(t) is the one-unit string t.
Lit(t) == <<[c |-> t, n |-> 1]>>
Rep(t, k) == IF k = 0 THEN <<>> ELSE <<[c |-> t, n |-> k]>>

RECURSIVE StrLen(_)
StrLen(s) == IF s = <<>> THEN 0 ELSE s[1].n + StrLen(Tail(s))

\* String.prototype.startsWith for a one-unit prefix
StartsWith(s, t) == Len(s) > 0 /\ s[1].c = t

\* String.prototype.trim: whitespace runs are the runs of " "
RECURSIVE TrimLeft(_)
TrimLeft(s) ==
    IF s # <<>> /\ s[1].c = " " THEN TrimLeft(Tail(s)) ELSE s
RECURSIVE TrimRight(_)
TrimRight(s) ==
    IF s # <<>> /\ s[Len(s)].c = " " THEN TrimRight(SubSeq(s, 1, Len(s) - 1)) ELSE s
Trim(s) == TrimRight(TrimLeft(s))

\* JSON / JavaScript values, tagged by typeof-like kind
JUndef == [tag |-> "undefined"]
JNull == [tag |-> "null"]
JStr(s) == [tag |-> "string", s |-> s]
JNum(k) == [tag |-> "number", k |-> k]
JArr(items) == [tag |-> "array", items |-> items]
JObj(fields) == [tag |-> "object", fields |-> fields]
\* an object JSON.stringify throws on (circular reference, BigInt field)
JCyclic == [tag |-> "cyclic"]

\* property access v[key] (undefined when absent or when v has no properties)
Get(v, key) ==
    IF v.tag = "object" /\ key \in DOMAIN v.fields THEN v.fields[key] ELSE JUndef

\* JavaScript truthiness
Truthy(v) ==
    /\ v.tag \notin {"undefined", "null"}
    /\ ~(v.tag = "string" /\ v.s = <<>>)
    /\ ~(v.tag = "number" /\ v.k = 0)

\* typeof v === 'object' (null included, as in JavaScript)
TypeofObject(v) == v.tag \in {"object", "array", "null", "cyclic"}

\* the fixed failure string of the client's catch block
ErrorContent == Lit("Sorry, there was an error processing your message. Please try again.")

\* ------------------------------------------------------------ wire format
\* The downstream byte stream is a sequence of units.  One frame
\* `data: ${JSON.stringify(obj)}\n\n` is four units: the "data: " prefix, the
\* JSON text in two halves (so that a read can end inside it) and the "\n\n"
\* that ends it (a read ending between the two newlines leaves an empty line
\* on either side, which filter(Boolean) drops).  `seq` is the position of
\* the frame in the stream; it is bookkeeping, not payload.
Prefix == [t |-> "data: "]
Newlines == [t |-> "\n\n"]
JsonHalf(h, obj, seq) == [t |-> "json", half |-> h, v |-> obj, seq |-> seq]

\* JSON.stringify(obj): the text of obj (throws on a cyclic object: callers
\* test Serializable first)
Serializable(obj) == obj.tag # "cyclic"
Stringify(obj, seq) == <<JsonHalf(1, obj, seq), JsonHalf(2, obj, seq)>>

\* encoder.encode(`data: ${JSON.stringify(obj)}\n\n`)
Frame(obj, seq) == <<Prefix>> \o Stringify(obj, seq) \o <<Newlines>>

\* JSON.parse(text): the value when text is one complete JSON text, else a
\* SyntaxError.  A proper prefix or suffix of an object's text never parses.
JsonParses(text) ==
    /\ Len(text) = 2
    /\ text[1].t = "json" /\ text[1].half = 1
    /\ text[2].t = "json" /\ text[2].half = 2
    /\ text[1].v = text[2].v /\ text[1].seq = text[2].seq
JsonParse(text) == text[1].v

\* chunkStr.split('\n').filter(Boolean): the non-empty lines of a chunk
RECURSIVE SplitLines(_, _)
SplitLines(chunk, cur) ==
    IF chunk = <<>>
    THEN IF cur = <<>> THEN <<>> ELSE <<cur>>
    ELSE IF chunk[1] = Newlines
         THEN (IF cur = <<>> THEN <<>> ELSE <<cur>>) \o SplitLines(Tail(chunk), <<>>)
         ELSE SplitLines(Tail(chunk), Append(cur, chunk[1]))
Lines(chunk) == SplitLines(chunk, <<>>)

\* line.startsWith('data: ') and JSON.parse(line.slice('data: '.length))
\* succeed: the line yields an event
LineParses(line) ==
    /\ Len(line) >= 1 /\ line[1] = Prefix
    /\ JsonParses(Tail(line))
LineEvent(line) == JsonParse(Tail(line))
LineSeq(line) == line[2].seq

\* the events of one chunk, in line order (lines that do not start with
\* "data: " or do not parse are dropped)
\* variant: the loop over the lines ends at the first line that yields no
\* event (not the code's behaviour)
RECURSIVE ParseLines_StopAtBad(_)
ParseLines_StopAtBad(lines) ==
    IF lines = <<>> THEN <<>>
    ELSE IF LineParses(lines[1])
         THEN <<[ev |-> LineEvent(lines[1]), seq |-> LineSeq(lines[1])]>>
              \o ParseLines_StopAtBad(Tail(lines))
         ELSE <<>>

RECURSIVE ParseLines(_)
ParseLines(lines) ==
    IF lines = <<>> THEN <<>>
    ELSE (IF LineParses(lines[1])
          THEN <<[ev |-> LineEvent(lines[1]), seq |-> LineSeq(lines[1])]>>
          ELSE <<>>) \o ParseLines(Tail(lines))
ParseChunk(chunk) == ParseLines(Lines(chunk))

\* -------------------------------------------------------- client reducer
\* A Message of the conversation.  content is a string, sources is undefined
\* or an array of documents, timestamp is the value of `new Date()`.
Message(role, content, sources, timestamp) ==
    [role |-> role, content |-> content, sources |-> sources, timestamp |-> timestamp]

\* setMessages updater of the partial-message branch: the trailing message,
\* when it is an assistant message, takes the content, the pending documents
\* and a new timestamp
TrailingAssistant(msgs) == Len(msgs) > 0 /\ msgs[Len(msgs)].role = "assistant"
\* what an appending reducer would do instead (not the code's behaviour):
\* the content grows by each partial text
SetPartial_Appending(msgs, partialContent, docs, ts) ==
    IF TrailingAssistant(msgs)
    THEN [msgs EXCEPT ![Len(msgs)] =
            [@ EXCEPT !.content = @ \o partialContent, !.sources = docs, !.timestamp = ts]]
    ELSE msgs
SetPartial(msgs, partialContent, docs, ts) ==
    IF TrailingAssistant(msgs)
    THEN [msgs EXCEPT ![Len(msgs)] =
            [@ EXCEPT !.content = partialContent, !.sources = docs, !.timestamp = ts]]
    ELSE msgs

\* variant: the text is not tested for a leading "{" (not the code's
\* behaviour)
PartialEligible_AnyText(data) ==
    /\ data.tag = "array"
    /\ LET lastObj == IF data.items = <<>> THEN JUndef ELSE data.items[Len(data.items)]
           partialContent == IF Get(lastObj, "content").tag \in {"undefined", "null"}
                             THEN JStr(<<>>) ELSE Get(lastObj, "content")
       IN /\ Get(lastObj, "type") = JStr(Lit("ai"))
          /\ partialContent.tag = "string"

\* an event reaches the setMessages call of the partial-message branch
PartialEligible(data) ==
    /\ data.tag = "array"
    /\ LET lastObj == IF data.items = <<>> THEN JUndef ELSE data.items[Len(data.items)]
           partialContent == IF Get(lastObj, "content").tag \in {"undefined", "null"}
                             THEN JStr(<<>>) ELSE Get(lastObj, "content")
       IN /\ Get(lastObj, "type") = JStr(Lit("ai"))
          /\ partialContent.tag = "string"
          /\ ~StartsWith(partialContent.s, "{")

\* lastObj.content ?? '' of an eligible event
PartialContent(data) ==
    LET c == Get(data.items[Len(data.items)], "content")
    IN IF c.tag \in {"undefined", "null"} THEN <<>> ELSE c.s

\* the retrieval branch's test that the payload carries a document array
HasDocuments(data) ==
    /\ Truthy(data)
    /\ TypeofObject(data)
    /\ data.tag = "object" /\ "retrieveDocuments" \in DOMAIN data.fields
    /\ Truthy(Get(data, "retrieveDocuments"))
    /\ Get(Get(data, "retrieveDocuments"), "documents").tag = "array"

\* what a reducer that collects documents would do instead (not the code's
\* behaviour): each retrieval payload is added to the pending documents
ApplyEvent_Collecting(st, pe) ==
    LET event == Get(pe.ev, "event")
        data == Get(pe.ev, "data")
        seen == [st EXCEPT !.applied = [@ EXCEPT !.last = pe.seq,
                                                   !.inOrder = @ /\ pe.seq > st.applied.last]]
    IN IF event = JStr(Lit("messages/partial"))
       THEN IF PartialEligible(data)
            THEN [seen EXCEPT
                    !.messages = SetPartial(st.messages, PartialContent(data), st.docs, st.now),
                    !.now = IF TrailingAssistant(st.messages) THEN st.now + 1 ELSE st.now]
            ELSE seen
       ELSE IF event = JStr(Lit("updates")) /\ Truthy(data)
            THEN IF HasDocuments(data)
                 THEN [seen EXCEPT !.docs =
                         JArr(@.items \o Get(Get(data, "retrieveDocuments"), "documents").items)]
                 ELSE [seen EXCEPT !.docs = JArr(<<>>)]
            ELSE seen

\* what a reducer that shows the documents as soon as they arrive would do
\* instead (not the code's behaviour): a retrieval payload is also written
\* to the sources of the trailing message
ApplyEvent_UpdatesAttach(st, pe) ==
    LET event == Get(pe.ev, "event")
        data == Get(pe.ev, "data")
        seen == [st EXCEPT !.applied = [@ EXCEPT !.last = pe.seq,
                                                   !.inOrder = @ /\ pe.seq > st.applied.last]]
    IN IF event = JStr(Lit("messages/partial"))
       THEN IF PartialEligible(data)
            THEN [seen EXCEPT
                    !.messages = SetPartial(st.messages, PartialContent(data), st.docs, st.now),
                    !.now = IF TrailingAssistant(st.messages) THEN st.now + 1 ELSE st.now]
            ELSE seen
       ELSE IF event = JStr(Lit("updates")) /\ Truthy(data)
            THEN IF HasDocuments(data)
                 THEN [seen EXCEPT
                         !.docs = Get(Get(data, "retrieveDocuments"), "documents"),
                         !.messages = [@ EXCEPT ![Len(@)] = [@ EXCEPT !.sources =
                                          Get(Get(data, "retrieveDocuments"), "documents")]]]
                 ELSE [seen EXCEPT !.docs = JArr(<<>>)]
            ELSE seen

\* One parsed event folded into the client state
\* st = [messages, docs (lastRetrievedDocsRef.current), now, applied].
\* `applied` watches the order of application: the stream position of the
\* last event applied, and whether every event applied so far came later in
\* the stream than the one applied before it.
ApplyEvent(st, pe) ==
    LET event == Get(pe.ev, "event")
        data == Get(pe.ev, "data")
        seen == [st EXCEPT !.applied = [@ EXCEPT !.last = pe.seq,
                                                   !.inOrder = @ /\ pe.seq > st.applied.last]]
    IN IF event = JStr(Lit("messages/partial"))
       THEN IF PartialEligible(data)
            THEN [seen EXCEPT
                    !.messages = SetPartial(st.messages, PartialContent(data), st.docs, st.now),
                    !.now = IF TrailingAssistant(st.messages) THEN st.now + 1 ELSE st.now]
            ELSE seen
       ELSE IF event = JStr(Lit("updates")) /\ Truthy(data)
            THEN IF HasDocuments(data)
                 THEN [seen EXCEPT !.docs = Get(Get(data, "retrieveDocuments"), "documents")]
                 ELSE [seen EXCEPT !.docs = JArr(<<>>)]
            ELSE seen

\* for (const line of lines): the events of a chunk applied in order
RECURSIVE ApplyEvents(_, _)
ApplyEvents(st, evs) ==
    IF evs = <<>> THEN st ELSE ApplyEvents(ApplyEvent(st, evs[1]), Tail(evs))

\* the body of one iteration of the read loop on a chunk
\* (applied.dropped records that a line was skipped: line 121 or 127-130)
ProcessChunk(st, chunk) ==
    LET done == ApplyEvents(st, ParseChunk(chunk))
    IN [done EXCEPT !.applied.dropped =
           @ \/ \E i \in DOMAIN Lines(chunk) : ~LineParses(Lines(chunk)[i])]

\* what a catch block that marks the whole conversation would do instead
\* (not the code's behaviour): every assistant message takes the failure
\* string
SetFailed_AllAssistant(msgs, ts) ==
    [i \in DOMAIN msgs |->
        IF msgs[i].role = "assistant"
        THEN [msgs[i] EXCEPT !.content = ErrorContent, !.timestamp = ts]
        ELSE msgs[i]]

\* what a catch block that leaves the timestamp alone would do instead (not
\* the code's behaviour)
SetFailed_KeepsTimestamp(msgs, ts) ==
    [msgs EXCEPT ![Len(msgs)] = [@ EXCEPT !.content = ErrorContent]]

\* setMessages updater of the catch block: the trailing message takes the
\* failure string and a new timestamp
SetFailed(msgs, ts) ==
    [msgs EXCEPT ![Len(msgs)] = [@ EXCEPT !.content = ErrorContent, !.timestamp = ts]]

\* ------------------------------------------------------------- the relay
\* maxMessages of the forwarding loop
maxMessages == 1000
\* the limits of validateMessage and validateThreadId
MaxMessageLength == 10000
MaxThreadIdLength == 100

\* validateMessage(message).valid
\* variant: the length of the trimmed message is not tested
validateMessage_NoLengthTest(message) ==
    /\ Truthy(message)
    /\ message.tag = "string"
    /\ Trim(message.s) # <<>>

validateMessage(message) ==
    /\ Truthy(message)
    /\ message.tag = "string"
    /\ Trim(message.s) # <<>>
    /\ StrLen(Trim(message.s)) <= MaxMessageLength

\* validateThreadId(threadId).valid
validateThreadId(tid) ==
    /\ Truthy(tid)
    /\ tid.tag = "string"
    /\ ~(StrLen(tid.s) < 1 \/ StrLen(tid.s) > MaxThreadIdLength)

\* what `serverClient.client.runs.stream(...)` can do: resolve with a stream,
\* or reject with an Error whose message names the cause, or with a non-Error
OpenResults == {"ok", "thread not found", "quota", "rate limit", "other", "non-Error"}

\* the reason validateMessage(message) gives (.error), undefined when valid
validateMessageError(message) ==
    IF ~Truthy(message) THEN JStr(Lit("Message is required"))
    ELSE IF message.tag # "string" THEN JStr(Lit("Message must be a string"))
    ELSE IF Trim(message.s) = <<>> THEN JStr(Lit("Message cannot be empty"))
    ELSE IF StrLen(Trim(message.s)) > MaxMessageLength
    THEN JStr(Lit("Message is too long. Maximum 10,000 characters allowed."))
    ELSE JUndef

\* the reason validateThreadId(threadId) gives (.error), undefined when valid
validateThreadIdError(tid) ==
    IF ~Truthy(tid) THEN JStr(Lit("Thread ID is required"))
    ELSE IF tid.tag # "string" THEN JStr(Lit("Thread ID must be a string"))
    ELSE IF StrLen(tid.s) < 1 \/ StrLen(tid.s) > MaxThreadIdLength
    THEN JStr(Lit("Invalid Thread ID format"))
    ELSE JUndef

\* an error response of POST: NextResponse.json({success: false, error, type},
\* {status}); created: the server client had been created when it failed
Failure(status, type, created, error) ==
    [status |-> status, type |-> type, opened |-> FALSE, created |-> created,
     error |-> error]

\* POST that checks the configuration and creates the server client before
\* it validates the input (not the code's behaviour)
PostOutcome_ConfigFirst(jsonOk, message, tid, env, clientOk, open) ==
    IF ~jsonOk
    THEN Failure(400, "validation_error", FALSE,
                 Lit("Invalid request format. Please ensure you are sending valid JSON."))
    ELSE IF ~env
    THEN Failure(503, "chat_error", FALSE,
                 Lit("Service configuration error: Chat service is not properly configured"))
    ELSE IF ~clientOk
    THEN Failure(503, "chat_error", FALSE,
                 Lit("Failed to initialize chat service. Please try again later."))
    ELSE IF ~validateMessage(message)
    THEN Failure(400, "validation_error", FALSE, validateMessageError(message).s)
    ELSE IF ~validateThreadId(tid)
    THEN Failure(400, "validation_error", FALSE, validateThreadIdError(tid).s)
    ELSE IF open = "thread not found"
    THEN Failure(404, "chat_error", TRUE,
                 Lit("Chat session not found. Please start a new conversation."))
    ELSE IF open \in {"quota", "rate limit"}
    THEN Failure(429, "chat_error", TRUE,
                 Lit("Service temporarily unavailable due to high demand. Please try again in a few minutes."))
    ELSE IF open # "ok"
    THEN Failure(503, "chat_error", TRUE,
                 Lit("Unable to start chat session. Please try again."))
    ELSE [status |-> 200, type |-> "stream", opened |-> TRUE, created |-> TRUE,
          error |-> <<>>]

\* POST that does not tell a quota or rate-limit failure from any other
\* (not the code's behaviour)
PostOutcome_NoQuotaClass(jsonOk, message, tid, env, clientOk, open) ==
    IF ~jsonOk
    THEN Failure(400, "validation_error", FALSE,
                 Lit("Invalid request format. Please ensure you are sending valid JSON."))
    ELSE IF ~validateMessage(message)
    THEN Failure(400, "validation_error", FALSE, validateMessageError(message).s)
    ELSE IF ~validateThreadId(tid)
    THEN Failure(400, "validation_error", FALSE, validateThreadIdError(tid).s)
    ELSE IF ~env
    THEN Failure(503, "chat_error", FALSE,
                 Lit("Service configuration error: Chat service is not properly configured"))
    ELSE IF ~clientOk
    THEN Failure(503, "chat_error", FALSE,
                 Lit("Failed to initialize chat service. Please try again later."))
    ELSE IF open = "thread not found"
    THEN Failure(404, "chat_error", TRUE,
                 Lit("Chat session not found. Please start a new conversation."))
    ELSE IF open # "ok"
    THEN Failure(503, "chat_error", TRUE,
                 Lit("Unable to start chat session. Please try again."))
    ELSE [status |-> 200, type |-> "stream", opened |-> TRUE, created |-> TRUE,
          error |-> <<>>]

\* POST up to the construction of the response stream: the response it
\* returns without streaming ([status, type, error]), or status 200 with the
\* upstream opened.  jsonOk: req.json() resolved; env: the assistant id is
\* configured; clientOk: createServerClient() returned; open: an OpenResults.
PostOutcome(jsonOk, message, tid, env, clientOk, open) ==
    IF ~jsonOk
    THEN Failure(400, "validation_error", FALSE,
                 Lit("Invalid request format. Please ensure you are sending valid JSON."))
    ELSE IF ~validateMessage(message)
    THEN Failure(400, "validation_error", FALSE, validateMessageError(message).s)
    ELSE IF ~validateThreadId(tid)
    THEN Failure(400, "validation_error", FALSE, validateThreadIdError(tid).s)
    ELSE IF ~env
    THEN Failure(503, "chat_error", FALSE,
                 Lit("Service configuration error: Chat service is not properly configured"))
    ELSE IF ~clientOk
    THEN Failure(503, "chat_error", FALSE,
                 Lit("Failed to initialize chat service. Please try again later."))
    ELSE IF open = "thread not found"
    THEN Failure(404, "chat_error", TRUE,
                 Lit("Chat session not found. Please start a new conversation."))
    ELSE IF open \in {"quota", "rate limit"}
    THEN Failure(429, "chat_error", TRUE,
                 Lit("Service temporarily unavailable due to high demand. Please try again in a few minutes."))
    ELSE IF open # "ok"
    THEN Failure(503, "chat_error", TRUE,
                 Lit("Unable to start chat session. Please try again."))
    ELSE [status |-> 200, type |-> "stream", opened |-> TRUE, created |-> TRUE,
          error |-> <<>>]

\* the response of POST together with what the request met on the server:
\* whether the assistant id was configured (env), whether
\* createServerClient() returned (clientOk) and what runs.stream(...) does
\* when called (open)
Responded(out, env, clientOk, open) ==
    [status |-> out.status, type |-> out.type, opened |-> out.opened,
     created |-> out.created, error |-> out.error,
     env |-> env, clientOk |-> clientOk, open |-> open]

\* the relay's own frames (timestamps of the server clock are not modelled)
ConnectionFrame ==
    JObj([type |-> JStr(Lit("connection")),
          message |-> JStr(Lit("Connected to chat service"))])
CompletionFrame(count) ==
    JObj([type |-> JStr(Lit("completion")),
          message |-> JStr(Lit("Chat response completed")),
          totalMessages |-> JNum(count)])
ErrorFrame ==
    JObj([type |-> JStr(Lit("error")),
          error |-> JStr(Lit("Connection interrupted")),
          details |-> JStr(Lit("Please try again"))])

\* the test of the forwarding loop on one chunk: it is enqueued
Forwardable(chunk) == Truthy(chunk) /\ TypeofObject(chunk) /\ Serializable(chunk)

\* ------------------------------------------------------------ the upstream
\* chunks of the LangGraph run stream: { event, data } objects
PartialChunk(data) == JObj([event |-> JStr(Lit("messages/partial")), data |-> data])
UpdatesChunk(data) == JObj([event |-> JStr(Lit("updates")), data |-> data])
AiMessage(content) == JObj([type |-> JStr(Lit("ai")), content |-> content])
HumanMessage(content) == JObj([type |-> JStr(Lit("human")), content |-> content])
Doc(name) == JObj([pageContent |-> JStr(Lit(name))])
Retrieved(docs) == JObj([retrieveDocuments |-> JObj([documents |-> docs])])

TextX == Lit("X")
TextXY == Lit("X") \o Lit("Y")
TextBrace == Lit("{") \o Lit("}")
Docs1 == JArr(<<Doc("a.pdf")>>)
Docs2 == JArr(<<Doc("b.pdf"), Doc("c.pdf")>>)

\* what the upstream yields in the session model (several submissions)
SessionFeed ==
    { PartialChunk(JArr(<<AiMessage(JStr(TextX))>>)),
      UpdatesChunk(Retrieved(Docs1)) }

\* what the upstream yields in the single-request model
StreamFeed ==
    { PartialChunk(JArr(<<AiMessage(JStr(TextX))>>)),
      PartialChunk(JArr(<<HumanMessage(JStr(TextX)), AiMessage(JStr(TextXY))>>)),
      UpdatesChunk(Retrieved(Docs1)),
      UpdatesChunk(Retrieved(Docs2)) }

\* what the upstream yields in the relay-only model: one kind of chunk in
\* the run that passes the ceiling, and chunks the loop does not forward (a
\* non-object, an object JSON.stringify throws on) in the short runs
RelayFeed == { PartialChunk(JArr(<<AiMessage(JStr(TextX))>>)) }
OddFeed == { PartialChunk(JArr(<<AiMessage(JStr(TextX))>>)), JNull, JCyclic }

\* what the upstream yields in the reducer model: also a partial whose text
\* starts with "{", an `updates` event without payload, and one whose
\* documents are not an array
ReduceFeed ==
    { PartialChunk(JArr(<<AiMessage(JStr(TextX))>>)),
      PartialChunk(JArr(<<AiMessage(JStr(TextBrace))>>)),
      UpdatesChunk(Retrieved(Docs1)),
      UpdatesChunk(JNull),
      UpdatesChunk(Retrieved(JStr(TextX))) }

\* ------------------------------------------------------- the ingest route
\* MAX_FILE_SIZE, MAX_FILES and ALLOWED_FILE_TYPES of api/ingest/route.ts
MAX_FILE_SIZE == 50 * 1024 * 1024
MAX_FILES == 10
ALLOWED_FILE_TYPES == {"application/pdf"}

\* A File of the form data: its name (a number stands for the name), its
\* MIME type, its size in bytes, and what processPDF makes of its content:
\* "pages" (documents), "none" (no document) or "corrupt" (it throws).
File(name, type, size, content) ==
    [name |-> name, type |-> type, size |-> size, content |-> content]

\* One line of an error text: the sentence, and the file name and the MIME
\* type the sentence contains (name 0 and type "": it contains none).
NoName == 0
ErrorLine(what, name, type) == [what |-> what, name |-> name, type |-> type]

\* validateFile(file).valid
validateFile(file) ==
    /\ file.type \in ALLOWED_FILE_TYPES
    /\ ~(file.size > MAX_FILE_SIZE)
    /\ ~(file.size = 0)

\* validateFile(file).error
validateFileError(file) ==
    IF file.type \notin ALLOWED_FILE_TYPES
    THEN ErrorLine("Invalid file type: <type>. Only PDF files are allowed.", NoName, file.type)
    ELSE IF file.size > MAX_FILE_SIZE
    THEN ErrorLine("File <name> is too large (<size>). Maximum size is 50 MB.", file.name, "")
    ELSE ErrorLine("File <name> is empty.", file.name, "")

\* the first file whose name an earlier file of the list has (0: none)
FirstDuplicate(files) ==
    LET dup == { j \in 1 .. Len(files) : \E i \in 1 .. j - 1 : files[i].name = files[j].name }
    IN IF dup = {} THEN 0 ELSE CHOOSE j \in dup : \A k \in dup : j <= k

\* the loop over validFiles: what each file adds to processingErrors
ProcessingErrorOf(file) ==
    IF file.content = "none"
    THEN ErrorLine("No content extracted from file: <name>. The file might be corrupted or empty.",
                   file.name, "")
    ELSE ErrorLine("Failed to process file <name>: <message>", file.name, "")
RECURSIVE ProcessingErrors(_)
ProcessingErrors(files) ==
    IF files = <<>> THEN <<>>
    ELSE (IF files[1].content = "pages" THEN <<>> ELSE <<ProcessingErrorOf(files[1])>>)
         \o ProcessingErrors(Tail(files))
RECURSIVE ProcessedFiles(_)
ProcessedFiles(files) ==
    IF files = <<>> THEN <<>>
    ELSE (IF files[1].content = "pages" THEN <<files[1].name>> ELSE <<>>)
         \o ProcessedFiles(Tail(files))
RECURSIVE ValidationErrors(_)
ValidationErrors(files) ==
    IF files = <<>> THEN <<>>
    ELSE (IF validateFile(files[1]) THEN <<>> ELSE <<validateFileError(files[1])>>)
         \o ValidationErrors(Tail(files))

\* a response of the ingest route: NextResponse.json(..., {status}).
\* error: the first line of the error text and the lines that follow it;
\* attempted: the files handed to processPDF; thread: createThread was
\* called; run: runs.wait was called
IngestResponse(status, type, error, lines, attempted, processed, thread, run) ==
    [status |-> status, type |-> type, error |-> error, lines |-> lines,
     attempted |-> attempted, processed |-> processed, thread |-> thread, run |-> run]
Invalid(status, error, lines) ==
    IngestResponse(status, "validation_error", error, lines, <<>>, <<>>, FALSE, FALSE)
Unprocessed(status, error, lines, attempted, thread, run) ==
    IngestResponse(status, "processing_error", error, lines, attempted, <<>>, thread, run)

\* POST of the ingest route, from the request to its response.  env: the
\* assistant id is configured; clientOk: getLangGraphServerClient() returns;
\* threadOk: createThread() resolves; wait: runs.wait(...) resolves ("done"),
\* loses the race against the 5 minute timer ("timeout") or rejects ("fails")
IngestOutcome(req, env, clientOk, threadOk, wait) ==
    IF ~env
    THEN Invalid(503, "Server configuration error: LANGGRAPH_INGESTION_ASSISTANT_ID is not set", <<>>)
    ELSE IF ~req.form
    THEN Invalid(400, "Invalid form data. Please ensure you are uploading files correctly.", <<>>)
    ELSE IF FirstDuplicate(req.files) # 0
    THEN Invalid(400, "Duplicate file detected: <name>. Please rename or remove duplicate files.",
                 <<ErrorLine("", req.files[FirstDuplicate(req.files)].name, "")>>)
    ELSE IF Len(req.files) = 0
    THEN Invalid(400, "No files provided. Please select at least one PDF file to upload.", <<>>)
    ELSE IF Len(req.files) > MAX_FILES
    THEN Invalid(400, "Too many files uploaded. Maximum 10 files allowed per request.", <<>>)
    ELSE IF Len(ValidationErrors(req.files)) > 0
    THEN Invalid(400, "File validation failed:", ValidationErrors(req.files))
    ELSE IF Len(ProcessedFiles(req.files)) = 0
    THEN Unprocessed(422, "No valid content could be extracted from any uploaded files.",
                     ProcessingErrors(req.files), req.files, FALSE, FALSE)
    ELSE IF ~clientOk
    THEN Unprocessed(503, "Failed to initialize document processing service. Please try again later.",
                     <<>>, req.files, FALSE, FALSE)
    ELSE IF ~threadOk
    THEN Unprocessed(503, "Failed to create processing session. Please try again.",
                     <<>>, req.files, TRUE, FALSE)
    ELSE IF wait = "timeout"
    THEN Unprocessed(408, "Document processing is taking longer than expected. Please try with smaller files or contact support.",
                     <<>>, req.files, TRUE, TRUE)
    ELSE IF wait = "fails"
    THEN Unprocessed(503, "Failed to process documents. The service might be temporarily unavailable.",
                     <<>>, req.files, TRUE, TRUE)
    ELSE IngestResponse(200, "success", "Documents processed successfully",
                        ProcessingErrors(req.files), req.files, ProcessedFiles(req.files),
                        TRUE, TRUE)

\* what the upstream yields in the partial-message model: a partial with a
\* text, and partials whose payload is not a list, is an empty list, ends in
\* a human message, or ends in an ai message whose content starts with "{",
\* is a number, or is null
PartialFeed ==
    { PartialChunk(JArr(<<AiMessage(JStr(TextX))>>)),
      PartialChunk(JStr(TextX)),
      PartialChunk(JArr(<<>>)),
      PartialChunk(JArr(<<AiMessage(JStr(TextX)), HumanMessage(JStr(TextXY))>>)),
      PartialChunk(JArr(<<AiMessage(JStr(TextBrace))>>)),
      PartialChunk(JArr(<<AiMessage(JNum(5))>>)),
      PartialChunk(JArr(<<AiMessage(JNull)>>)),
      UpdatesChunk(Retrieved(Docs1)) }

\* ------------------------------------------------------------------ state
Reqs == 1 .. MaxRequests

VARIABLES
    \* page.tsx, Home
    messages,             \* useState: the conversation
    isLoading,            \* useState
    threadId,             \* useState: null or the thread id
    abortControllerRef,   \* useRef: null or the controller of a request
    lastRetrievedDocsRef, \* useRef: the pending documents
    now,                  \* the value the next `new Date()` returns
    \* one handleSubmit invocation that passed its guard, per request
    cpc,                  \* where the invocation is: "unused", "fetch", "read", "done"
    aborted,              \* abortController.signal.aborted
    body,                 \* the request body it sent
    applied,              \* the order in which it applied events (see ApplyEvent)
    nreq,                 \* requests issued so far
    lastCall,             \* the last handleSubmit call with a non-blank message:
                          \* "none", "accepted" or "refused"
    \* route.ts, POST, per request
    rpc,                  \* "idle", "responded", "streaming", "closed"
    response,             \* the outcome of POST before streaming
    messageCount,         \* messageCount of the forwarding loop
    wire,                 \* downstream units enqueued and not yet read
    sent,                 \* the frames enqueued so far: kind and upstream position
    cancelled,            \* the downstream stream was cancelled by the client side
    \* api/ingest/route.ts, POST
    ingest,               \* the request received and, once answered, its response
    \* the LangGraph run stream
    upstream,             \* [feed: the chunks it may yield, left: how many more,
                          \*  yielded: the kinds of the chunks the open stream
                          \*  has yielded, ended: "no", or how it ended:
                          \*  "done" (exhausted) or "threw"]
    \* the consumer of the response body
    consumer              \* "reads": frames wait on the wire for the client's
                          \* reads; "piped": a read is always pending, and each
                          \* frame is handed over as it is enqueued

vars == <<messages, isLoading, threadId, abortControllerRef, lastRetrievedDocsRef, now,
          cpc, aborted, body, applied, nreq, lastCall,
          rpc, response, messageCount, wire, sent, cancelled, upstream, consumer, ingest>>
relayVars == <<rpc, response, messageCount, wire, sent, cancelled>>

Controller(r) == [tag |-> "AbortController", req |-> r]
NoResponse == [status |-> 0, type |-> "none", opened |-> FALSE, created |-> FALSE]
NoBody == [json |-> FALSE, message |-> JUndef, threadId |-> JUndef]
NoneApplied == [last |-> 0, inOrder |-> TRUE, dropped |-> FALSE]

\* the ingest route before a request has arrived
NoIngest == [pc |-> "idle"]

\* the thread id of client.createThread(): a 36-character UUID
ThreadUuid == JStr(Rep("t", 36))

\* what the user submits: blank text, text with surrounding blanks
Inputs == { Rep(" ", 1),
            Rep(" ", 1) \o Lit("q") \o Rep(" ", 1) }

\* the run stream before runs.stream(...) has opened it
Upstream(feed, left) == [feed |-> feed, left |-> left, yielded |-> <<>>, ended |-> "no"]

InitClient ==
    /\ messages = <<>>
    /\ isLoading = FALSE
    /\ threadId = JNull
    /\ abortControllerRef = JNull
    /\ lastRetrievedDocsRef = JArr(<<>>)
    /\ now = 0
    /\ cpc = [r \in Reqs |-> "unused"]
    /\ aborted = [r \in Reqs |-> FALSE]
    /\ body = [r \in Reqs |-> NoBody]
    /\ applied = [r \in Reqs |-> NoneApplied]
    /\ nreq = 0
    /\ lastCall = "none"

InitRelay ==
    /\ rpc = [r \in Reqs |-> "idle"]
    /\ response = [r \in Reqs |-> NoResponse]
    /\ messageCount = [r \in Reqs |-> 0]
    /\ wire = [r \in Reqs |-> <<>>]
    /\ sent = [r \in Reqs |-> <<>>]
    /\ cancelled = [r \in Reqs |-> FALSE]

Init ==
    /\ InitClient
    /\ InitRelay
    /\ upstream = Upstream(SessionFeed, MaxEvents)
    /\ consumer = "reads"
    /\ ingest = NoIngest

\* The relay run of request r is followed while its client side is alive.
\* When the client's invocation ends, the run's locals and bookkeeping are
\* dropped: the relay holds no state after the call returns, and nothing a
\* run does after its client is gone reaches the client or another run
\* (SpecRelay follows such a run to its end, see cancel).
ReleaseRelay(r) ==
    /\ rpc' = [rpc EXCEPT ![r] = "idle"]
    /\ response' = [response EXCEPT ![r] = NoResponse]
    /\ messageCount' = [messageCount EXCEPT ![r] = 0]
    /\ wire' = [wire EXCEPT ![r] = <<>>]
    /\ sent' = [sent EXCEPT ![r] = <<>>]
    /\ cancelled' = [cancelled EXCEPT ![r] = FALSE]

\* ----------------------------------------------------------- client actions
\* useEffect initThread: client.createThread() resolved and setThreadId ran
\* (a rejected createThread only shows a toast and leaves the state alone)
CreateThread ==
    /\ threadId = JNull
    /\ threadId' = ThreadUuid
    /\ UNCHANGED <<messages, isLoading, abortControllerRef, lastRetrievedDocsRef, now,
                   cpc, aborted, body, applied, nreq, lastCall>>
    /\ UNCHANGED relayVars /\ UNCHANGED <<upstream, consumer, ingest>>

\* the requests whose fetch or read loop has not ended
InFlight == { r \in Reqs : cpc[r] \in {"fetch", "read"} }

\* the guard without its isLoading test (not the code's behaviour)
SubmitIgnored_NoLoadingTest(message) ==
    Trim(message) = <<>> \/ threadId = JNull

\* the guard of handleSubmit: the invocation returns at once
SubmitIgnored(message) ==
    Trim(message) = <<>> \/ threadId = JNull \/ isLoading

\* a handleSubmit that leaves the pending documents of the earlier request
\* in place (not the code's behaviour)
handleSubmit_KeepsSnapshot(message) ==
    /\ lastCall' = IF Trim(message) = <<>> THEN lastCall
                   ELSE IF SubmitIgnored(message) THEN "refused" ELSE "accepted"
    /\ IF SubmitIgnored(message)
       THEN UNCHANGED <<messages, isLoading, threadId, abortControllerRef,
                        lastRetrievedDocsRef, now, cpc, aborted, body, applied, nreq>>
       ELSE /\ nreq < MaxRequests
            /\ LET r == nreq + 1
                   userMessage == Trim(message)
               IN /\ aborted' = IF abortControllerRef # JNull
                                 THEN [aborted EXCEPT ![abortControllerRef.req] = TRUE]
                                 ELSE aborted
                  /\ messages' = messages \o
                        << Message("user", userMessage, JUndef, now),
                           Message("assistant", <<>>, JUndef, now) >>
                  /\ now' = now + 1
                  /\ isLoading' = TRUE
                  /\ abortControllerRef' = Controller(r)
                  /\ body' = [body EXCEPT ![r] =
                        [json |-> TRUE, message |-> JStr(userMessage), threadId |-> threadId]]
                  /\ cpc' = [cpc EXCEPT ![r] = "fetch"]
                  /\ nreq' = r
                  /\ UNCHANGED <<threadId, applied, lastRetrievedDocsRef>>
    /\ UNCHANGED relayVars /\ UNCHANGED <<upstream, consumer, ingest>>

\* handleSubmit(message) up to its first await (the fetch call)
handleSubmit(message) ==
    /\ lastCall' = IF Trim(message) = <<>> THEN lastCall
                   ELSE IF SubmitIgnored(message) THEN "refused" ELSE "accepted"
    /\ IF SubmitIgnored(message)
       THEN UNCHANGED <<messages, isLoading, threadId, abortControllerRef,
                        lastRetrievedDocsRef, now, cpc, aborted, body, applied, nreq>>
       ELSE /\ nreq < MaxRequests
            /\ LET r == nreq + 1
                   userMessage == Trim(message)
               IN /\ aborted' = IF abortControllerRef # JNull
                                 THEN [aborted EXCEPT ![abortControllerRef.req] = TRUE]
                                 ELSE aborted
                  /\ messages' = messages \o
                        << Message("user", userMessage, JUndef, now),
                           Message("assistant", <<>>, JUndef, now) >>
                  /\ now' = now + 1
                  /\ isLoading' = TRUE
                  /\ abortControllerRef' = Controller(r)
                  /\ lastRetrievedDocsRef' = JArr(<<>>)
                  /\ body' = [body EXCEPT ![r] =
                        [json |-> TRUE, message |-> JStr(userMessage), threadId |-> threadId]]
                  /\ cpc' = [cpc EXCEPT ![r] = "fetch"]
                  /\ nreq' = r
                  /\ UNCHANGED <<threadId, applied>>
    /\ UNCHANGED relayVars /\ UNCHANGED <<upstream, consumer, ingest>>

\* the invocation for request r returns: its locals are gone
EndInvocation(r) ==
    /\ cpc' = [cpc EXCEPT ![r] = "done"]
    /\ aborted' = [aborted EXCEPT ![r] = FALSE]
    /\ body' = [body EXCEPT ![r] = NoBody]
    /\ applied' = [applied EXCEPT ![r] = NoneApplied]
    /\ ReleaseRelay(r)

\* catch block then finally block of the invocation for request r
CatchFinally(r) ==
    /\ messages' = SetFailed(messages, now)
    /\ now' = now + 1
    /\ isLoading' = FALSE
    /\ abortControllerRef' = JNull
    /\ EndInvocation(r)
    /\ UNCHANGED lastRetrievedDocsRef

\* a finally block that leaves the controller in the ref (not the code's
\* behaviour)
Finally_KeepsController(r) ==
    /\ isLoading' = FALSE
    /\ EndInvocation(r)
    /\ UNCHANGED <<messages, now, lastRetrievedDocsRef, abortControllerRef>>

\* finally block alone (the read loop ended with done)
Finally(r) ==
    /\ isLoading' = FALSE
    /\ abortControllerRef' = JNull
    /\ EndInvocation(r)
    /\ UNCHANGED <<messages, now, lastRetrievedDocsRef>>

\* `await fetch(...)` settles: it rejects (aborted signal, network failure),
\* or resolves with the response of POST; a non-ok status or a response
\* without a body throws
FetchSettle(r) ==
    /\ cpc[r] = "fetch"
    /\ \/ CatchFinally(r)
       \/ /\ ~aborted[r]
          /\ rpc[r] # "idle" /\ response[r].status = 200
          /\ cpc' = [cpc EXCEPT ![r] = "read"]
          /\ UNCHANGED <<messages, now, isLoading, abortControllerRef,
                         lastRetrievedDocsRef, aborted, body, applied>>
          /\ UNCHANGED relayVars
    /\ UNCHANGED <<threadId, nreq, lastCall, upstream, consumer, ingest>>

\* one `await reader.read()` and the loop body on what it returned: it
\* rejects (aborted signal, network failure), returns done (the stream is
\* closed and drained) or returns a chunk, any non-empty run of the units not
\* yet read
Read(r) ==
    /\ cpc[r] = "read"
    /\ \/ CatchFinally(r)
       \/ /\ ~aborted[r]
          /\ wire[r] = <<>> /\ rpc[r] = "closed"
          /\ Finally(r)
       \/ /\ ~aborted[r]
          /\ \E k \in 1 .. Len(wire[r]) :
                LET st == ProcessChunk([messages |-> messages, docs |-> lastRetrievedDocsRef,
                                        now |-> now, applied |-> applied[r]],
                                       SubSeq(wire[r], 1, k))
                IN /\ messages' = st.messages
                   /\ lastRetrievedDocsRef' = st.docs
                   /\ now' = st.now
                   /\ applied' = [applied EXCEPT ![r] = st.applied]
                   /\ wire' = [wire EXCEPT ![r] = SubSeq(wire[r], k + 1, Len(wire[r]))]
          /\ UNCHANGED <<isLoading, abortControllerRef, cpc, aborted, body>>
          /\ UNCHANGED <<rpc, response, messageCount, sent, cancelled>>
    /\ UNCHANGED <<threadId, nreq, lastCall, upstream, consumer, ingest>>

\* ------------------------------------------------------------ relay actions
\* a queue that hands out the newest frame first (not the code's behaviour)
Enqueue_Front(w, frame) == frame \o w

\* controller.enqueue(frame): the frame goes behind what is already queued
Enqueue(w, frame) == w \o frame

\* a record of the sent log
Sent(kind, up, total) == [kind |-> kind, up |-> up, total |-> total]

\* controller.enqueue(encoder.encode(...)) for request r: on a cancelled
\* stream the call throws and nothing is queued; with a read pending the
\* frame fulfils it and does not wait in the queue
Emit(r, obj, kind, up, total) ==
    IF cancelled[r]
    THEN UNCHANGED <<wire, sent>>
    ELSE /\ wire' = IF consumer = "piped" THEN wire
                    ELSE [wire EXCEPT ![r] = Enqueue(@, Frame(obj, Len(sent[r]) + 1))]
         /\ sent' = [sent EXCEPT ![r] = Append(@, Sent(kind, up, total))]

\* POST with a start() that enqueues no connection frame (not the code's
\* behaviour)
POST_NoConnectionFrame(r) ==
    /\ cpc[r] = "fetch" /\ rpc[r] = "idle"
    /\ \E env \in BOOLEAN, clientOk \in BOOLEAN, open \in OpenResults :
          LET out == PostOutcome(body[r].json, body[r].message, body[r].threadId,
                                 env, clientOk, open)
          IN /\ response' = [response EXCEPT ![r] = Responded(out, env, clientOk, open)]
             /\ IF out.opened
                THEN /\ rpc' = [rpc EXCEPT ![r] = "streaming"]
                     /\ messageCount' = [messageCount EXCEPT ![r] = 0]
                     /\ upstream' = [upstream EXCEPT !.yielded = <<>>, !.ended = "no"]
                     /\ UNCHANGED <<wire, sent>>
                ELSE /\ rpc' = [rpc EXCEPT ![r] = "responded"]
                     /\ UNCHANGED <<messageCount, wire, sent, upstream>>
    /\ UNCHANGED cancelled
    /\ UNCHANGED <<messages, isLoading, threadId, abortControllerRef, lastRetrievedDocsRef,
                   now, cpc, aborted, body, applied, nreq, lastCall, consumer, ingest>>

\* POST from the request to the first `await` of the forwarding loop: the
\* error response, or the upstream opened, the stream constructed and, in
\* start(), the connection frame enqueued
POST(r) ==
    /\ cpc[r] = "fetch" /\ rpc[r] = "idle"
    /\ \E env \in BOOLEAN, clientOk \in BOOLEAN, open \in OpenResults :
          LET out == PostOutcome(body[r].json, body[r].message, body[r].threadId,
                                 env, clientOk, open)
          IN /\ response' = [response EXCEPT ![r] = Responded(out, env, clientOk, open)]
             /\ IF out.opened
                THEN /\ rpc' = [rpc EXCEPT ![r] = "streaming"]
                     /\ messageCount' = [messageCount EXCEPT ![r] = 0]
                     /\ upstream' = [upstream EXCEPT !.yielded = <<>>, !.ended = "no"]
                     /\ Emit(r, ConnectionFrame, "connection", 0, 0)
                ELSE /\ rpc' = [rpc EXCEPT ![r] = "responded"]
                     /\ UNCHANGED <<messageCount, wire, sent, upstream>>
    /\ UNCHANGED cancelled
    /\ UNCHANGED <<messages, isLoading, threadId, abortControllerRef, lastRetrievedDocsRef,
                   now, cpc, aborted, body, applied, nreq, lastCall, consumer, ingest>>

\* an end of start() that sends the completion frame on every path (not the
\* code's behaviour)
Close_AlwaysCompletion(r, count, kind) ==
    /\ messageCount' = [messageCount EXCEPT ![r] = count]
    /\ Emit(r, CompletionFrame(count), "completion", 0, count)
    /\ rpc' = [rpc EXCEPT ![r] = "closed"]
    /\ UNCHANGED <<response, cancelled>>

\* an end of start() whose catch block does not reach controller.close()
\* (not the code's behaviour)
Close_OpenAfterError(r, count, kind) ==
    /\ messageCount' = [messageCount EXCEPT ![r] = count]
    /\ IF kind = "completion"
       THEN Emit(r, CompletionFrame(count), "completion", 0, count)
       ELSE Emit(r, ErrorFrame, "error", 0, 0)
    /\ rpc' = [rpc EXCEPT ![r] = IF kind = "completion" THEN "closed" ELSE @]
    /\ UNCHANGED <<response, cancelled>>

\* the end of start(): after the loop the completion frame (kind
\* "completion"), or in the catch block the error frame (kind "error"), then
\* controller.close() in the finally block.  On a cancelled stream the
\* enqueue throws (after the loop: into the catch block, whose enqueue throws
\* too) and finally still runs.
Close(r, count, kind) ==
    /\ messageCount' = [messageCount EXCEPT ![r] = count]
    /\ IF kind = "completion"
       THEN Emit(r, CompletionFrame(count), "completion", 0, count)
       ELSE Emit(r, ErrorFrame, "error", 0, 0)
    /\ rpc' = [rpc EXCEPT ![r] = "closed"]
    /\ UNCHANGED <<response, cancelled>>

\* a loop body that counts only the chunks it forwards (not the code's
\* behaviour)
Forward_CountsForwarded(r, chunk, count) ==
    IF count > maxMessages
    THEN Close(r, count, "completion")
    ELSE /\ messageCount' = [messageCount EXCEPT ![r] = IF Forwardable(chunk) THEN count ELSE @]
         /\ IF Forwardable(chunk)
            THEN Emit(r, chunk, "event", count, 0)
            ELSE UNCHANGED <<wire, sent>>
         /\ UNCHANGED <<rpc, response, cancelled>>

\* a loop body that gives up on a chunk it cannot forward (not the code's
\* behaviour)
Forward_AbortsOnBadChunk(r, chunk, count) ==
    IF count > maxMessages
    THEN Close(r, count, "completion")
    ELSE IF Forwardable(chunk)
         THEN /\ messageCount' = [messageCount EXCEPT ![r] = count]
              /\ Emit(r, chunk, "event", count, 0)
              /\ UNCHANGED <<rpc, response, cancelled>>
         ELSE Close(r, count, "error")

\* the loop body without the ceiling test (not the code's behaviour)
Forward_NoCeiling(r, chunk, count) ==
    /\ messageCount' = [messageCount EXCEPT ![r] = count]
    /\ IF Forwardable(chunk)
       THEN Emit(r, chunk, "event", count, 0)
       ELSE UNCHANGED <<wire, sent>>
    /\ UNCHANGED <<rpc, response, cancelled>>

\* a loop body that counts a chunk once it is enqueued (not the code's
\* behaviour): on a cancelled stream the count stands still
Forward_CountsEnqueued(r, chunk, count) ==
    IF count > maxMessages
    THEN Close(r, count, "completion")
    ELSE /\ messageCount' = [messageCount EXCEPT ![r] =
                                IF Forwardable(chunk) /\ ~cancelled[r] THEN count ELSE @]
         /\ IF Forwardable(chunk)
            THEN Emit(r, chunk, "event", count, 0)
            ELSE UNCHANGED <<wire, sent>>
         /\ UNCHANGED <<rpc, response, cancelled>>

\* the body of the forwarding loop on one chunk, the count-th of the run
Forward(r, chunk, count) ==
    IF count > maxMessages
    THEN Close(r, count, "completion")
    ELSE /\ messageCount' = [messageCount EXCEPT ![r] = count]
         /\ IF Forwardable(chunk)
            THEN Emit(r, chunk, "event", count, 0)
            ELSE UNCHANGED <<wire, sent>>
         /\ UNCHANGED <<rpc, response, cancelled>>

\* one `for await` step of the forwarding loop and what follows it without
\* a further await: the upstream yields a chunk, ends, or throws
RelayPull(r) ==
    /\ rpc[r] = "streaming"
    /\ \/ /\ upstream.left > 0
          /\ \E chunk \in upstream.feed :
                /\ upstream' = [upstream EXCEPT !.left = @ - 1,
                                                !.yielded = Append(@, chunk.tag)]
                /\ Forward(r, chunk, messageCount[r] + 1)
       \/ /\ Close(r, messageCount[r], "completion")
          /\ upstream' = [upstream EXCEPT !.ended = "done"]
       \/ /\ Close(r, messageCount[r], "error")
          /\ upstream' = [upstream EXCEPT !.ended = "threw"]
    /\ UNCHANGED <<messages, isLoading, threadId, abortControllerRef, lastRetrievedDocsRef,
                   now, cpc, aborted, body, applied, nreq, lastCall, consumer, ingest>>

\* cancel() of the response stream: the consumer is gone (the client
\* disconnected or aborted) while the relay still streams; what was queued
\* and not read is discarded.  The relay-only model lets it happen while at
\* most MaxCancelAt frames were sent.
cancel(r) ==
    /\ rpc[r] = "streaming" /\ ~cancelled[r]
    /\ Len(sent[r]) <= MaxCancelAt
    /\ cancelled' = [cancelled EXCEPT ![r] = TRUE]
    /\ wire' = [wire EXCEPT ![r] = <<>>]
    /\ UNCHANGED <<rpc, response, messageCount, sent>>
    /\ UNCHANGED <<messages, isLoading, threadId, abortControllerRef, lastRetrievedDocsRef,
                   now, cpc, aborted, body, applied, nreq, lastCall, upstream, consumer, ingest>>

\* ---------------------------------------------------------- ingest action
\* POST of api/ingest/route.ts on the request received
IngestPOST ==
    /\ ingest.pc = "received"
    /\ \E env \in BOOLEAN, clientOk \in BOOLEAN, threadOk \in BOOLEAN,
          wait \in {"done", "timeout", "fails"} :
          ingest' = [pc |-> "responded", request |-> ingest.request,
                     env |-> env, clientOk |-> clientOk, threadOk |-> threadOk, wait |-> wait,
                     response |-> IngestOutcome(ingest.request, env, clientOk, threadOk, wait)]
    /\ UNCHANGED <<messages, isLoading, threadId, abortControllerRef, lastRetrievedDocsRef,
                   now, cpc, aborted, body, applied, nreq, lastCall>>
    /\ UNCHANGED relayVars /\ UNCHANGED <<upstream, consumer>>

\* ------------------------------------------------------------ specifications
\* the session: any number of submissions up to MaxRequests
Next ==
    \/ CreateThread
    \/ \E m \in Inputs : handleSubmit(m)
    \/ \E r \in Reqs : FetchSettle(r)
    \/ \E r \in Reqs : Read(r)
    \/ \E r \in Reqs : POST(r)
    \/ \E r \in Reqs : RelayPull(r)

Spec == Init /\ [][Next]_vars

\* the session in which every pending `await fetch(...)` and every pending
\* `await reader.read()` settles (by resolving or by rejecting)
SpecLive ==
    Spec /\ WF_vars(\E r \in Reqs : FetchSettle(r)) /\ WF_vars(\E r \in Reqs : Read(r))

\* the state right after the first accepted submission (CreateThread, then
\* handleSubmit with a non-blank message), request 1 carrying the body b
SubmittedWith(b) ==
    /\ messages = << Message("user", Lit("q"), JUndef, 0),
                     Message("assistant", <<>>, JUndef, 0) >>
    /\ isLoading = TRUE
    /\ threadId = ThreadUuid
    /\ abortControllerRef = Controller(1)
    /\ lastRetrievedDocsRef = JArr(<<>>)
    /\ now = 1
    /\ cpc = [r \in Reqs |-> IF r = 1 THEN "fetch" ELSE "unused"]
    /\ aborted = [r \in Reqs |-> FALSE]
    /\ body = [r \in Reqs |-> IF r = 1 THEN b ELSE NoBody]
    /\ applied = [r \in Reqs |-> NoneApplied]
    /\ nreq = 1
    /\ lastCall = "accepted"

Submitted ==
    SubmittedWith([json |-> TRUE, message |-> JStr(Lit("q")), threadId |-> ThreadUuid])

\* one request from submission to its end, with the richer upstream
InitStream ==
    /\ Submitted
    /\ InitRelay
    /\ upstream = Upstream(StreamFeed, MaxStreamEvents)
    /\ consumer = "reads"
    /\ ingest = NoIngest

NextStream ==
    \/ FetchSettle(1)
    \/ Read(1)
    \/ POST(1)
    \/ RelayPull(1)

SpecStream == InitStream /\ [][NextStream]_vars

\* the relay of one request alone: with an upstream longer than the ceiling
\* and a consumer that keeps up, or with a short upstream that also yields
\* chunks the loop does not forward and a consumer that leaves them queued
InitRelayOnly ==
    /\ Submitted
    /\ InitRelay
    /\ \/ /\ upstream = Upstream(RelayFeed, maxMessages + MaxOver)
          /\ consumer = "piped"
          /\ ingest = NoIngest
       \/ /\ upstream = Upstream(OddFeed, MaxRelayEvents)
          /\ consumer = "reads"
          /\ ingest = NoIngest

NextRelay ==
    \/ POST(1)
    \/ RelayPull(1)
    \/ cancel(1)

SpecRelay == InitRelayOnly /\ [][NextRelay]_vars

\* the same, every pending `for await` step being resumed: the upstream
\* yields, ends or throws (the consumer is free to cancel or not)
SpecRelayLive == SpecRelay /\ WF_vars(RelayPull(1))

\* one request from submission to its end, the upstream yielding ineligible
\* and malformed events as well
InitReduce ==
    /\ Submitted
    /\ InitRelay
    /\ upstream = Upstream(ReduceFeed, MaxStreamEvents)
    /\ consumer = "reads"
    /\ ingest = NoIngest

SpecReduce == InitReduce /\ [][NextStream]_vars

\* one request from submission to its end, the upstream yielding partials of
\* every shape
InitPartial ==
    /\ Submitted
    /\ InitRelay
    /\ upstream = Upstream(PartialFeed, MaxPartialEvents)
    /\ consumer = "reads"
    /\ ingest = NoIngest

SpecPartial == InitPartial /\ [][NextStream]_vars

\* POST on the bodies any HTTP client can send: the `message` and `threadId`
\* of a JSON body (absent, of the wrong type, blank, at and beyond the
\* limits), or a body that is not JSON
PostMessages ==
    { JUndef, JStr(<<>>), JNum(5), JStr(Rep(" ", 2)),
      JStr(Rep(" ", 1) \o Lit("q") \o Rep(" ", 1)),
      JStr(Rep("m", MaxMessageLength)),
      JStr(Rep(" ", 1) \o Rep("m", MaxMessageLength) \o Rep(" ", 1)),
      JStr(Rep("m", MaxMessageLength + 1)) }
PostThreadIds ==
    { JUndef, JStr(<<>>), JNum(7), JStr(Rep("t", 1)), ThreadUuid,
      JStr(Rep("t", MaxThreadIdLength)), JStr(Rep("t", MaxThreadIdLength + 1)) }
PostBodies ==
    { [json |-> TRUE, message |-> m, threadId |-> t] : m \in PostMessages, t \in PostThreadIds }
    \cup { NoBody }

InitPost ==
    /\ \E b \in PostBodies : SubmittedWith(b)
    /\ InitRelay
    /\ upstream = Upstream(RelayFeed, MaxRelayEvents)
    /\ consumer = "reads"
    /\ ingest = NoIngest

NextPost == POST(1)

SpecPost == InitPost /\ [][NextPost]_vars

\* POST /api/ingest on the uploads a client can send: up to MaxIngestFiles
\* files of any type and size under any of MaxIngestFiles names (and of any
\* content when the file is one that processPDF can be given),
\* MAX_FILES or MAX_FILES + 1 files of which the last may be too large, or
\* a body that is not form data
IngestTypes == {"application/pdf", "text/plain"}
IngestSizes == {0, 1, MAX_FILE_SIZE, MAX_FILE_SIZE + 1}
IngestContents == {"pages", "none", "corrupt"}
IngestFileSet ==
    { f \in { File(n, t, z, c) : n \in 1 .. MaxIngestFiles, t \in IngestTypes,
                                 z \in IngestSizes, c \in IngestContents } :
         validateFile(f) \/ f.content = "pages" }
ManyFiles(count, lastSize) ==
    [i \in 1 .. count |-> File(i, "application/pdf", IF i = count THEN lastSize ELSE 1, "pages")]
IngestRequests ==
    { [form |-> TRUE, files |-> fs] :
         fs \in UNION { [1 .. k -> IngestFileSet] : k \in 0 .. MaxIngestFiles } }
    \cup { [form |-> TRUE, files |-> ManyFiles(k, z)] :
              k \in {MAX_FILES, MAX_FILES + 1}, z \in {1, MAX_FILE_SIZE + 1} }
    \cup { [form |-> FALSE, files |-> <<>>] }

InitIngest ==
    /\ InitClient
    /\ InitRelay
    /\ upstream = Upstream(SessionFeed, MaxEvents)
    /\ consumer = "reads"
    /\ \E req \in IngestRequests : ingest = [pc |-> "received", request |-> req]

NextIngest == IngestPOST

SpecIngest == InitIngest /\ [][NextIngest]_vars

\* ------------------------------------------------------------------ claims
\* A step in which the read loop of request r took a chunk off the wire, and
\* the chunk it took
ReadsChunk(r) ==
    /\ cpc[r] = "read" /\ cpc'[r] = "read"
    /\ sent'[r] = sent[r]
    /\ Len(wire'[r]) < Len(wire[r])
ChunkRead(r) == SubSeq(wire[r], 1, Len(wire[r]) - Len(wire'[r]))

\* a parsed event that reaches the setMessages call of the partial branch,
\* and one that reaches the retrieval branch
EligiblePartial(pe) ==
    /\ Get(pe.ev, "event") = JStr(Lit("messages/partial"))
    /\ PartialEligible(Get(pe.ev, "data"))
Retrieval(pe) ==
    /\ Get(pe.ev, "event") = JStr(Lit("updates"))
    /\ Truthy(Get(pe.ev, "data"))
RetrievedDocuments(pe) == Get(Get(Get(pe.ev, "data"), "retrieveDocuments"), "documents")

\* the trailing message of the conversation
Trailing == messages[Len(messages)]

\* C1: after the read loop has processed a chunk holding eligible
\* messages/partial events, the content of the trailing assistant message is
\* exactly the content carried by the last of them: each partial replaces
\* the content, none is appended to what earlier partials left.
C1_PartialReplacesContent ==
    [][\A r \in Reqs : ReadsChunk(r) =>
          \A evs \in { ParseChunk(ChunkRead(r)) } :
          \A idx \in { { i \in 1 .. Len(evs) : EligiblePartial(evs[i]) } } :
             idx # {} =>
                \A j \in { i \in idx : \A m \in idx : m <= i } :
                   messages'[Len(messages')].content =
                      PartialContent(Get(evs[j].ev, "data"))]_vars

\* C1 witness: a second eligible partial was applied to the trailing
\* assistant message (it was stamped a second time) and the message shows
\* the one-character text of that partial
C1_SecondPartialShown ==
    /\ cpc[1] = "read"
    /\ Trailing.role = "assistant"
    /\ Trailing.content = TextX
    /\ Trailing.timestamp = 2

C3_SplitReadSameEvents ==
    \A r \in Reqs :
       Len(wire[r]) = 4 * Len(sent[r]) =>
          \A k \in 0 .. Len(wire[r]) :
             ParseChunk(SubSeq(wire[r], 1, k)) \o
                ParseChunk(SubSeq(wire[r], k + 1, Len(wire[r])))
             = ParseChunk(wire[r])

\* C4: a handleSubmit call with a non-blank message made while an earlier
\* request is in flight aborts that request and issues a new one, and once a
\* later request has been issued no step of the earlier invocation changes
\* the conversation, isLoading or the abort-controller reference.
C4_ResubmitAbortsEarlier ==
    [][\A r \in InFlight :
          /\ (lastCall' # lastCall \/ nreq' # nreq) =>
                /\ aborted'[r]
                /\ nreq' = nreq + 1
                /\ cpc'[nreq'] = "fetch"
          /\ (r < nreq /\ cpc'[r] # cpc[r]) =>
                UNCHANGED <<messages, isLoading, abortControllerRef>>]_vars

\* C5: in every reachable state at most one chat request is in flight.
C5_AtMostOneInFlight == Cardinality(InFlight) <= 1

\* C5 witness: the second request is in flight, alone, and a submission made
\* meanwhile was turned away
C5_SecondInFlightAlone ==
    /\ InFlight = {2}
    /\ lastCall = "refused"

\* C6: once the client has parsed the error frame the relay emitted (the
\* last frame of the stream), the trailing assistant message holds the fixed
\* failure string.
C6_ErrorFrameShowsFailure ==
    \A r \in Reqs :
       (/\ sent[r] # <<>>
        /\ sent[r][Len(sent[r])].kind = "error"
        /\ applied[r].last = Len(sent[r]))
       => Trailing.content = ErrorContent

\* C7: when the invocation of a request ends, isLoading is false and the
\* trailing assistant message is not left with empty content (the loading
\* state); when the relay had emitted its error frame, the message holds the
\* fixed failure string.
C7_EndedNeverLoading ==
    [][\A r \in Reqs : (cpc[r] = "read" /\ cpc'[r] = "done") =>
          /\ ~isLoading'
          /\ messages'[Len(messages')].content # <<>>
          /\ (sent[r] # <<>> /\ sent[r][Len(sent[r])].kind = "error") =>
                messages'[Len(messages')].content = ErrorContent]_vars

\* C8: a relay run streams only under a 200 response, whose upstream was
\* opened; the first frame of every 200 response is the connection frame,
\* no later frame is one, and so every forwarded event comes after it (on
\* a wire nobody has read from, it is the frame at the head).
C8_ConnectionFrameFirst ==
    \A r \in Reqs :
       /\ rpc[r] \in {"streaming", "closed"} => response[r].status = 200
       /\ sent[r] # <<>> => response[r].opened
       /\ response[r].status = 200 =>
             /\ response[r].opened
             /\ sent[r] # <<>> /\ sent[r][1].kind = "connection"
             /\ \A i \in 2 .. Len(sent[r]) : sent[r][i].kind # "connection"
             /\ (~cancelled[r] /\ consumer = "reads") =>
                   /\ Len(wire[r]) = 4 * Len(sent[r])
                   /\ wire[r][2].v = ConnectionFrame

\* C8 witness: an upstream event was forwarded right after the connection
\* frame
C8_EventAfterConnection ==
    /\ Len(sent[1]) >= 2
    /\ sent[1][1].kind = "connection"
    /\ sent[1][2].kind = "event"
    /\ response[1].status = 200

\* C9: the relay's event frames carry the upstream events in upstream
\* order, each once; the frames wait on the wire in the order they were
\* sent; and the client applies each parsed event later in the stream than
\* the one it applied before.
C9_OrderKept ==
    \A r \in Reqs :
       /\ \A i, j \in DOMAIN sent[r] :
             (i < j /\ sent[r][i].kind = "event" /\ sent[r][j].kind = "event")
             => sent[r][i].up < sent[r][j].up
       /\ \A i, j \in DOMAIN wire[r] :
             (i < j /\ wire[r][i].t = "json" /\ wire[r][j].t = "json")
             => wire[r][i].seq <= wire[r][j].seq
       /\ applied[r].inOrder

\* C9 witness: the client has applied the third upstream event, the fourth
\* frame of the stream, after two partials
C9_ThirdEventApplied ==
    /\ applied[1].last = 4
    /\ Len(sent[1]) >= 4
    /\ sent[1][4].kind = "event" /\ sent[1][4].up = 3
    /\ Trailing.timestamp = 2

\* C10: a relay run forwards at most maxMessages upstream events; when the
\* upstream yields more, the run is closed, no error frame was sent, and
\* (unless the consumer cancelled the stream, when nothing can be sent) the
\* last frame is the completion frame.
C10_CeilingEndsWithCompletion ==
    \A r \in Reqs :
       /\ Cardinality({ i \in DOMAIN sent[r] : sent[r][i].kind = "event" }) <= maxMessages
       /\ messageCount[r] > maxMessages =>
             /\ rpc[r] = "closed"
             /\ \A i \in DOMAIN sent[r] : sent[r][i].kind # "error"
             /\ ~cancelled[r] => sent[r][Len(sent[r])].kind = "completion"

\* C10 witness: the upstream yielded its 1001st event; 1000 were forwarded
\* after the connection frame and the completion frame ended the stream
C10_CeilingReached ==
    /\ messageCount[1] = maxMessages + 1
    /\ rpc[1] = "closed"
    /\ Len(sent[1]) = maxMessages + 2
    /\ sent[1][maxMessages + 1].kind = "event"
    /\ sent[1][maxMessages + 2].kind = "completion"

\* the relay runs that have opened their downstream stream
Streamed == { r \in Reqs : rpc[r] \in {"streaming", "closed"} }

\* the positions in the log of request r of the frames of one kind
FramesOf(r, kind) == { i \in DOMAIN sent[r] : sent[r][i].kind = kind }

\* the JSON value of the last frame waiting on the wire of request r
LastOnWire(r) == wire[r][Len(wire[r]) - 1].v

\* C11: when the upstream stream ended normally after n events and the
\* consumer has not cancelled, the last frame of the closed run is the
\* completion frame, n is at most maxMessages, and totalMessages is n (in the
\* log of frames and, where the frames wait unread, on the wire).
C11_CompletionCountsEvents ==
    \A r \in Reqs :
       (rpc[r] = "closed" /\ upstream.ended = "done" /\ ~cancelled[r]) =>
          /\ Len(upstream.yielded) <= maxMessages
          /\ sent[r][Len(sent[r])].kind = "completion"
          /\ sent[r][Len(sent[r])].total = Len(upstream.yielded)
          /\ consumer = "reads" => LastOnWire(r) = CompletionFrame(Len(upstream.yielded))

\* C11 witness: the upstream ended after three events, one of them not
\* forwarded, and the completion frame carries 3
C11_ExhaustedAfterThree ==
    /\ rpc[1] = "closed" /\ upstream.ended = "done" /\ ~cancelled[1]
    /\ Len(upstream.yielded) = 3
    /\ Len(sent[1]) = 4
    /\ sent[1][4].kind = "completion" /\ sent[1][4].total = 3

\* C12: when the upstream iterator threw, the run is closed; unless the
\* consumer has cancelled, its last frame is the error frame, it is the only
\* error frame, and no completion frame was sent.
C12_ThrowEndsWithErrorFrame ==
    \A r \in Streamed :
       upstream.ended = "threw" =>
          /\ rpc[r] = "closed"
          /\ ~cancelled[r] =>
                /\ sent[r][Len(sent[r])].kind = "error"
                /\ Cardinality(FramesOf(r, "error")) = 1
                /\ FramesOf(r, "completion") = {}
                /\ consumer = "reads" => LastOnWire(r) = ErrorFrame

\* C12 witness: the upstream threw after one forwarded event
C12_ThrewAfterOneEvent ==
    /\ rpc[1] = "closed" /\ upstream.ended = "threw"
    /\ Len(sent[1]) = 3
    /\ sent[1][2].kind = "event"
    /\ sent[1][3].kind = "error"

\* the upstream positions of the events request r has forwarded, and the
\* positions (up to the ceiling) of the chunks it has not
ForwardedUps(r) == { sent[r][i].up : i \in FramesOf(r, "event") }
SkippedUps(r) ==
    { k \in 1 .. Len(upstream.yielded) : k <= maxMessages /\ k \notin ForwardedUps(r) }

\* C13 as stated: in every run, once an upstream event was skipped (its
\* serialization or its enqueue failed), every later upstream event that is
\* an object JSON.stringify accepts is forwarded, no error frame is sent
\* unless the upstream threw, and when the upstream ends normally the last
\* frame is the completion frame.
C13_SkipOnlyFailedEvent ==
    \A r \in Streamed :
       SkippedUps(r) # {} =>
          /\ \A k \in SkippedUps(r) : \A j \in SkippedUps(r) :
                k < j => upstream.yielded[j] # "object"
          /\ FramesOf(r, "error") # {} => upstream.ended = "threw"
          /\ (rpc[r] = "closed" /\ upstream.ended = "done") =>
                sent[r][Len(sent[r])].kind = "completion"

\* C13 amended: in every run whose downstream stream the consumer has not
\* cancelled (enqueue fails only on a cancelled stream, and then every later
\* enqueue fails too), the events forwarded are exactly the upstream events
\* up to the ceiling that are objects JSON.stringify accepts, no error frame
\* is sent unless the upstream threw, and when the upstream ends normally
\* the last frame is the completion frame.
C13_SkipOnlyUnserializable ==
    \A r \in Streamed :
       ~cancelled[r] =>
          /\ ForwardedUps(r) =
                { k \in 1 .. Len(upstream.yielded) :
                     k <= maxMessages /\ upstream.yielded[k] = "object" }
          /\ FramesOf(r, "error") # {} => upstream.ended = "threw"
          /\ (rpc[r] = "closed" /\ upstream.ended = "done") =>
                sent[r][Len(sent[r])].kind = "completion"

\* C13 witness: the first upstream chunk was skipped, the second was
\* forwarded, and the run ended with the completion frame
C13_ForwardedAfterSkip ==
    /\ rpc[1] = "closed" /\ upstream.ended = "done" /\ ~cancelled[1]
    /\ Len(upstream.yielded) >= 2
    /\ upstream.yielded[1] = "cyclic"
    /\ sent[1][2].kind = "event" /\ sent[1][2].up = 2
    /\ sent[1][Len(sent[1])].kind = "completion"

\* C14: a step that ends the forwarding (the upstream ended or threw, or the
\* ceiling was passed) closes the downstream stream, and once the stream is
\* closed it stays closed and no frame is enqueued.
C14_ClosedOnceAtEnd ==
    [][\A r \in Reqs :
          /\ (rpc[r] = "streaming" /\
              (upstream'.ended # "no" \/ messageCount'[r] > maxMessages))
             => rpc'[r] = "closed"
          /\ rpc'[r] = "closed" => rpc[r] \in {"streaming", "closed"}
          /\ rpc[r] = "closed" =>
                /\ rpc'[r] = "closed"
                /\ sent'[r] = sent[r] /\ wire'[r] = wire[r]]_vars

\* C14 witness: a run whose consumer had cancelled and whose upstream then
\* threw is closed
C14_ClosedAfterCancelAndThrow ==
    /\ rpc[1] = "closed"
    /\ cancelled[1]
    /\ upstream.ended = "threw"

\* the request of r was answered (with a response or a stream)
Answered == { r \in Reqs : rpc[r] # "idle" }

\* C15: a POST whose JSON body carries a message or a threadId the validator
\* rejects is answered 400 with type validation_error; the server client was
\* not created, the upstream was not opened and no frame was sent, whether
\* or not the assistant id was configured, the client could be created and
\* the upstream could be opened.
C15_InvalidInputIs400 ==
    \A r \in Answered :
       (body[r].json /\
        (~validateMessage(body[r].message) \/ ~validateThreadId(body[r].threadId)))
       => /\ response[r].status = 400
          /\ response[r].type = "validation_error"
          /\ ~response[r].created /\ ~response[r].opened
          /\ rpc[r] = "responded" /\ sent[r] = <<>>

\* C15 witness: a message of 10,001 characters was answered 400 although the
\* assistant id was missing and the upstream would have refused the thread
C15_TooLongWithBrokenUpstream ==
    /\ rpc[1] = "responded"
    /\ body[1].message = JStr(Rep("m", MaxMessageLength + 1))
    /\ body[1].threadId = ThreadUuid
    /\ ~response[1].env /\ response[1].open = "thread not found"
    /\ response[1].status = 400

\* C16 (as stated): the validator passes (the response is not a validation
\* error) exactly when the message is a string that is non-empty after
\* trimming and has at most 10,000 characters, and the threadId is a string
\* of 1 to 100 characters; every other pair is answered with a validation
\* error whose reason is a non-empty text.
C16_ValidatorPassesExactly ==
    \A r \in Answered :
       body[r].json =>
          \A m \in { body[r].message } : \A t \in { body[r].threadId } :
          \A pass \in { /\ m.tag = "string"
                        /\ Trim(m.s) # <<>>
                        /\ StrLen(m.s) <= 10000
                        /\ t.tag = "string"
                        /\ StrLen(t.s) >= 1 /\ StrLen(t.s) <= 100 } :
             /\ pass <=> response[r].type # "validation_error"
             /\ pass <=> (validateMessageError(m) = JUndef /\ validateThreadIdError(t) = JUndef)
             /\ ~pass => StrLen(response[r].error) > 0

\* C16 (amended): the same, the 10,000 characters being counted on the
\* message after trimming: the blanks around the text do not count.
C16_ValidatorPassesOnTrimmedLength ==
    \A r \in Answered :
       body[r].json =>
          \A m \in { body[r].message } : \A t \in { body[r].threadId } :
          \A pass \in { /\ m.tag = "string"
                        /\ Trim(m.s) # <<>>
                        /\ StrLen(Trim(m.s)) <= 10000
                        /\ t.tag = "string"
                        /\ StrLen(t.s) >= 1 /\ StrLen(t.s) <= 100 } :
             /\ pass <=> response[r].type # "validation_error"
             /\ pass <=> (validateMessageError(m) = JUndef /\ validateThreadIdError(t) = JUndef)
             /\ ~pass => StrLen(response[r].error) > 0

\* C16 witness: a message of 10,000 characters between two blanks (10,002
\* in all) and a threadId of exactly 100 characters passed the validator
C16_AtTheLimitsPasses ==
    /\ rpc[1] = "streaming"
    /\ body[1].message = JStr(Rep(" ", 1) \o Rep("m", MaxMessageLength) \o Rep(" ", 1))
    /\ body[1].threadId = JStr(Rep("t", MaxThreadIdLength))
    /\ response[1].status = 200

\* C17: when the input is valid, the assistant id configured and the client
\* created, and runs.stream fails, the response is a chat_error: 404 when
\* the failure says the thread was not found, 429 when it names a quota or a
\* rate limit, 503 otherwise; it is no stream and no frame is sent.
C17_OpenFailureClassified ==
    \A r \in Answered :
       (/\ body[r].json
        /\ validateMessage(body[r].message) /\ validateThreadId(body[r].threadId)
        /\ response[r].env /\ response[r].clientOk
        /\ response[r].open # "ok")
       => /\ response[r].type = "chat_error"
          /\ response[r].status =
                (IF response[r].open = "thread not found" THEN 404
                 ELSE IF response[r].open \in {"quota", "rate limit"} THEN 429
                 ELSE 503)
          /\ ~response[r].opened
          /\ rpc[r] = "responded" /\ sent[r] = <<>> /\ wire[r] = <<>>

\* C17 witness: a rate-limit failure of runs.stream was answered 429
C17_RateLimitIs429 ==
    /\ rpc[1] = "responded"
    /\ response[1].env /\ response[1].clientOk
    /\ response[1].open = "rate limit"
    /\ response[1].status = 429 /\ response[1].type = "chat_error"

\* the JSON values of the frames waiting on the wire of request r
WireValues(r) == { wire[r][i].v : i \in { j \in DOMAIN wire[r] : wire[r][j].t = "json" } }

\* C18: every frame the relay has written decodes to an object with a string
\* `event` field and a `data` field.
C18_FramesCarryEventAndData ==
    \A r \in Reqs : \A v \in WireValues(r) :
       /\ v.tag = "object"
       /\ Get(v, "event").tag = "string"
       /\ "data" \in DOMAIN v.fields

\* the events of the lines of a chunk that start with "data: " and parse
EventOfLine(line) == [ev |-> LineEvent(line), seq |-> LineSeq(line)]
WellFormed(chunk) ==
    [i \in 1 .. Len(SelectSeq(Lines(chunk), LineParses)) |->
        EventOfLine(SelectSeq(Lines(chunk), LineParses)[i])]

\* C19: a line of a chunk that does not parse as an event is dropped without
\* changing the conversation or the pending documents and without ending
\* the loop: the step that reads a chunk leaves the state that applying the
\* chunk's well-formed events alone, in order, gives (the state it had when
\* no line is well-formed), and the request stays in its read loop, loading.
C19_UnparsedFrameDropped ==
    [][ \A r \in Reqs :
          ReadsChunk(r) =>
             \A good \in { WellFormed(ChunkRead(r)) } :
             \A st \in { ApplyEvents([messages |-> messages, docs |-> lastRetrievedDocsRef,
                                      now |-> now, applied |-> applied[r]], good) } :
                /\ messages' = st.messages
                /\ lastRetrievedDocsRef' = st.docs
                /\ applied'[r].last = st.applied.last
                /\ good = <<>> => /\ messages' = messages
                                  /\ lastRetrievedDocsRef' = lastRetrievedDocsRef
                /\ isLoading' = isLoading /\ isLoading
    ]_vars

\* C19 witness: of the three frames sent so far one was split by a read and
\* dropped, the third was applied after it and showed its text, and the
\* request is still reading
C19_AppliedAfterDrop ==
    /\ cpc[1] = "read" /\ isLoading
    /\ Len(sent[1]) = 3
    /\ applied[1].dropped
    /\ applied[1].last = 3
    /\ Trailing.content # <<>> /\ Trailing.content # ErrorContent

\* an `updates` event whose payload is not a well-formed list of documents:
\* the payload is missing or empty, or retrieveDocuments.documents is not an
\* array
MalformedUpdates(pe) ==
    /\ Get(pe.ev, "event") = JStr(Lit("updates"))
    /\ Get(Get(Get(pe.ev, "data"), "retrieveDocuments"), "documents").tag # "array"

\* C20: when the read loop processes a chunk whose last `updates` event has
\* a payload that is not a well-formed list of documents, the pending
\* documents become the empty list, and an eligible partial that follows it
\* in the chunk leaves the trailing assistant message with empty sources.
C20_MalformedUpdatesClearsSnapshot ==
    [][\A r \in Reqs : ReadsChunk(r) =>
          \A evs \in { ParseChunk(ChunkRead(r)) } :
          \A upd \in { { i \in 1 .. Len(evs) : Get(evs[i].ev, "event") = JStr(Lit("updates")) } } :
          \A u \in { i \in upd : \A m \in upd : m <= i } :
             MalformedUpdates(evs[u]) =>
                /\ lastRetrievedDocsRef' = JArr(<<>>)
                /\ (\E j \in u + 1 .. Len(evs) : EligiblePartial(evs[j]))
                      => messages'[Len(messages')].sources = JArr(<<>>)]_vars

\* a parsed event of the messages/partial kind, and one of the `updates` kind
PartialKind(pe) == Get(pe.ev, "event") = JStr(Lit("messages/partial"))
UpdatesKind(pe) == Get(pe.ev, "event") = JStr(Lit("updates"))

\* C21: a read whose events are all of another kind than messages/partial
\* (`updates` events, the connection and completion frames, unknown kinds)
\* leaves every message as it was, content, sources and timestamp, and
\* takes no timestamp; when none of them is an `updates` event the pending
\* documents are unchanged as well.
C21_OnlyPartialsChangeMessages ==
    [][\A r \in Reqs : ReadsChunk(r) =>
          \A evs \in { ParseChunk(ChunkRead(r)) } :
             /\ (\A i \in 1 .. Len(evs) : ~PartialKind(evs[i]))
                   => messages' = messages /\ now' = now
             /\ (\A i \in 1 .. Len(evs) : ~PartialKind(evs[i]) /\ ~UpdatesKind(evs[i]))
                   => lastRetrievedDocsRef' = lastRetrievedDocsRef]_vars

\* C21 witness: the connection frame, retrieval events and the completion
\* frame have all been applied, the pending documents are those of a
\* retrieval event, and the assistant message is still as it was appended
C21_RetrievalLeftMessageAlone ==
    /\ cpc[1] = "read" /\ rpc[1] = "closed" /\ wire[1] = <<>>
    /\ ~applied[1].dropped
    /\ applied[1].last = Len(sent[1]) /\ Len(sent[1]) >= 3
    /\ lastRetrievedDocsRef = Docs1
    /\ Trailing = Message("assistant", <<>>, JUndef, 0)

\* C22: in every step the conversation either keeps its length, and then
\* only its last message may differ, that message being and staying an
\* assistant message, or grows, and then by exactly a user message followed
\* by an assistant message with empty content and no sources, in a step that
\* accepts a submission, every message it had being kept in place.
C22_AppendOnlyButLast ==
    [][/\ Len(messages') >= Len(messages)
       /\ \A i \in 1 .. Len(messages) - 1 : messages'[i] = messages[i]
       /\ (Len(messages') = Len(messages) /\ messages' # messages)
             => /\ messages[Len(messages)].role = "assistant"
                /\ messages'[Len(messages)].role = "assistant"
       /\ Len(messages') > Len(messages)
             => /\ nreq' = nreq + 1
                /\ Len(messages') = Len(messages) + 2
                /\ Len(messages) > 0 => messages'[Len(messages)] = messages[Len(messages)]
                /\ messages'[Len(messages) + 1].role = "user"
                /\ messages'[Len(messages) + 1].content # <<>>
                /\ messages'[Len(messages) + 2].role = "assistant"
                /\ messages'[Len(messages) + 2].content = <<>>
                /\ messages'[Len(messages) + 2].sources = JUndef
       /\ nreq' # nreq => Len(messages') = Len(messages) + 2]_vars

\* C22 witness: the second request failed and rewrote its own assistant
\* message; the answer of the first request is still in second place
C22_EarlierAnswerKept ==
    /\ Len(messages) = 4
    /\ messages[1].role = "user" /\ messages[3].role = "user"
    /\ messages[2].role = "assistant" /\ messages[2].content = TextX
    /\ messages[4].role = "assistant" /\ messages[4].content = ErrorContent

FailingFiles(req) ==
    { req.files[i].name : i \in { j \in DOMAIN req.files :
         \/ req.files[j].type # "application/pdf"
         \/ req.files[j].size > 50 * 1024 * 1024
         \/ req.files[j].size = 0 } }
\* the file names an error text contains
NamedIn(resp) == { resp.lines[i].name : i \in DOMAIN resp.lines } \ {NoName}

\* a request that reaches the per-file validation: the assistant id is
\* configured, the body is form data, and it carries 1 to MAX_FILES files
\* with distinct names
ReachesFileValidation ==
    /\ ingest.pc = "responded"
    /\ ingest.env /\ ingest.request.form
    /\ Len(ingest.request.files) \in 1 .. MAX_FILES
    /\ FirstDuplicate(ingest.request.files) = 0

\* C24: when a request that reaches the per-file validation carries a file
\* that fails it, the response is 400, its error names exactly the failing
\* files, no file was handed to processPDF and no thread was created.
C24_ErrorNamesFailingFiles ==
    (ReachesFileValidation /\ FailingFiles(ingest.request) # {})
       => /\ ingest.response.status = 400
          /\ NamedIn(ingest.response) = FailingFiles(ingest.request)
          /\ ingest.response.attempted = <<>>
          /\ ~ingest.response.thread /\ ~ingest.response.run

\* C25: a failed ingest request is answered 400 whenever its response is
\* typed validation_error, 422 when the files were processed and no content
\* was extracted from any of them, 408 when the ingestion run lost against
\* the timer, and 503 or 500 in every other case.
C25_IngestStatusByFailure ==
    (ingest.pc = "responded" /\ ingest.response.status # 200) =>
       \A resp \in { ingest.response } :
          IF resp.type = "validation_error" THEN resp.status = 400
          ELSE IF resp.attempted # <<>> /\ ProcessedFiles(ingest.request.files) = <<>>
          THEN resp.status = 422
          ELSE IF resp.run /\ ingest.wait = "timeout" THEN resp.status = 408
          ELSE resp.status \in {503, 500}

\* the last element of a list payload (undefined for any other payload)
LastOf(data) ==
    IF data.tag = "array" /\ data.items # <<>> THEN data.items[Len(data.items)] ELSE JUndef

\* a messages/partial event whose payload is not a list ending in an element
\* of type 'ai', or whose content is not a string or starts with "{"
IneligibleAsStated(pe) ==
    /\ PartialKind(pe)
    /\ \A data \in { Get(pe.ev, "data") } :
          \/ data.tag # "array"
          \/ Get(LastOf(data), "type") # JStr(Lit("ai"))
          \/ Get(LastOf(data), "content").tag # "string"
          \/ StartsWith(Get(LastOf(data), "content").s, "{")

\* the same, a missing or null content counting as the empty string
IneligibleWithDefault(pe) ==
    /\ PartialKind(pe)
    /\ \A data \in { Get(pe.ev, "data") } :
          \/ data.tag # "array"
          \/ Get(LastOf(data), "type") # JStr(Lit("ai"))
          \/ Get(LastOf(data), "content").tag \notin {"string", "undefined", "null"}
          \/ /\ Get(LastOf(data), "content").tag = "string"
             /\ StartsWith(Get(LastOf(data), "content").s, "{")

\* C26 (as stated): a read whose events are all messages/partial events
\* whose payload is not a list ending in an element of type 'ai', or whose
\* content is not a string or starts with "{", leaves the messages, the
\* clock and the pending documents unchanged.
C26_IneligiblePartialIgnored ==
    [][\A r \in Reqs : ReadsChunk(r) =>
          \A evs \in { ParseChunk(ChunkRead(r)) } :
             (evs # <<>> /\ \A i \in 1 .. Len(evs) : IneligibleAsStated(evs[i]))
                => /\ messages' = messages
                   /\ now' = now
                   /\ lastRetrievedDocsRef' = lastRetrievedDocsRef]_vars

\* C26 (amended): the same for the partials whose payload is not a list
\* ending in an element of type 'ai', or whose content is present and not a
\* string, or starts with "{".
C26_IneligiblePartialIgnoredWithDefault ==
    [][\A r \in Reqs : ReadsChunk(r) =>
          \A evs \in { ParseChunk(ChunkRead(r)) } :
             (evs # <<>> /\ \A i \in 1 .. Len(evs) : IneligibleWithDefault(evs[i]))
                => /\ messages' = messages
                   /\ now' = now
                   /\ lastRetrievedDocsRef' = lastRetrievedDocsRef]_vars

\* C26 witness: the stream brought one partial with a text and one partial
\* that does not qualify, in either order; both were applied and the
\* assistant message carries the text with its first timestamp
C26_TextKeptAfterIneligible ==
    /\ cpc[1] = "read" /\ ~applied[1].dropped
    /\ Len(upstream.yielded) = 2 /\ applied[1].last = 3
    /\ lastRetrievedDocsRef = JArr(<<>>)
    /\ Trailing.content = TextX
    /\ now = 2

\* the invocation of request r ends in this step and cannot have ended
\* normally: it was awaiting fetch (which rejected, or resolved with a
\* non-2xx status or without a body), or it was reading a stream that is not
\* both closed and drained (the read rejected)
FailsNow(r) ==
    /\ cpc'[r] = "done"
    /\ \/ cpc[r] = "fetch"
       \/ cpc[r] = "read" /\ ~(wire[r] = <<>> /\ rpc[r] = "closed")

\* C27: in the step in which request r fails, the conversation keeps its
\* length, its last message is the assistant message request r appended
\* (the one after the user message carrying r's text), that message takes
\* the fixed failure string and the current time as timestamp, later than
\* the one it had, and keeps its sources, and every earlier message is
\* unchanged.
C27_FailureMarksOwnMessage ==
    [][\A r \in Reqs : FailsNow(r) =>
          /\ Len(messages) = 2 * r /\ Len(messages') = 2 * r
          /\ messages[2 * r - 1].role = "user"
          /\ JStr(messages[2 * r - 1].content) = body[r].message
          /\ messages'[2 * r].role = "assistant"
          /\ messages'[2 * r].content = ErrorContent
          /\ messages'[2 * r].timestamp = now
          /\ messages'[2 * r].timestamp > messages[2 * r].timestamp
          /\ messages'[2 * r].sources = messages[2 * r].sources
          /\ \A i \in 1 .. 2 * r - 1 : messages'[i] = messages[i]]_vars

\* C27 witness: the first request failed after a retrieval event and a
\* partial had been applied: its message shows the failure string and still
\* carries the sources
C27_FailedMidStream ==
    /\ cpc[1] = "done" /\ ~isLoading
    /\ Len(messages) = 2
    /\ Trailing.content = ErrorContent
    /\ Trailing.sources = Docs1

\* C28: while a request is in flight isLoading is true and a handleSubmit
\* call issues no request and changes nothing of the page's state or of the
\* requests; and whenever a request is in flight, eventually none is, with
\* isLoading false and the abort-controller reference null.
C28_LoadingUntilEnded ==
    /\ [](InFlight # {} => isLoading)
    /\ [][InFlight # {} =>
            /\ nreq' = nreq
            /\ lastCall' # lastCall =>
                  UNCHANGED <<messages, isLoading, threadId, abortControllerRef,
                              lastRetrievedDocsRef, now, cpc, aborted, body, applied,
                              rpc, response, messageCount, wire, sent, cancelled>>]_vars
    /\ (InFlight # {}) ~> (InFlight = {} /\ ~isLoading /\ abortControllerRef = JNull)

\* C28 witness: the first request ended after its stream completed, a
\* submission made while it was in flight having been ignored; isLoading is
\* false and the reference is null
C28_EndedAfterIgnoredSubmission ==
    /\ nreq = 1 /\ cpc[1] = "done"
    /\ lastCall = "refused"
    /\ Trailing.content = TextX
    /\ ~isLoading /\ abortControllerRef = JNull

\* C29: the step that accepts a submission leaves the pending documents
\* empty and the new assistant message without sources; a request that has
\* been sent no upstream event has empty pending documents and no sources on
\* its message; and a read of request r changes the sources of r's message,
\* the last one, only to what was pending or to the documents of a
\* retrieval event of the chunk read, and the pending documents only to the
\* documents of such an event or to the empty list.
C29_SourcesFromOwnRequest ==
    /\ [](\A r \in InFlight :
             FramesOf(r, "event") = {} =>
                /\ lastRetrievedDocsRef = JArr(<<>>)
                /\ Len(messages) = 2 * r /\ Trailing.sources = JUndef)
    /\ [][/\ nreq' # nreq =>
                /\ lastRetrievedDocsRef' = JArr(<<>>)
                /\ messages'[Len(messages')].sources = JUndef
          /\ \A r \in Reqs : ReadsChunk(r) =>
                \A evs \in { ParseChunk(ChunkRead(r)) } :
                \A own \in { { RetrievedDocuments(evs[i]) :
                                i \in { j \in 1 .. Len(evs) :
                                          Retrieval(evs[j]) /\
                                          HasDocuments(Get(evs[j].ev, "data")) } } } :
                   /\ Len(messages') = 2 * r
                   /\ messages'[2 * r].sources
                         \in {messages[2 * r].sources, lastRetrievedDocsRef, JArr(<<>>)} \cup own
                   /\ lastRetrievedDocsRef' \in {lastRetrievedDocsRef, JArr(<<>>)} \cup own]_vars

\* C29 witness: the first request attached the documents of its retrieval
\* event and left them pending; the second request is reading its stream
\* with empty pending documents and no sources on its message
C29_SecondRequestStartsEmpty ==
    /\ cpc[2] = "read" /\ applied[2].last >= 1
    /\ messages[2].sources = Docs1
    /\ lastRetrievedDocsRef = JArr(<<>>)
    /\ Len(messages) = 4 /\ Trailing.sources = JUndef

\* C30: in every relay run whose last frame is the completion frame, the
\* frame's totalMessages is the number of upstream events the run forwarded.
C30_TotalCountsForwarded ==
    \A r \in Streamed :
       (rpc[r] = "closed" /\ sent[r][Len(sent[r])].kind = "completion") =>
          sent[r][Len(sent[r])].total = Cardinality(FramesOf(r, "event"))

====
